---- MODULE Spec2Model ----
(***************************************************************************)
(* Model of pyecn.I_Profile_Loader.current_profile: CSV profile parsing    *)
(* (load_profile_csv), uniform grid construction (build_time_grid),        *)
(* piecewise-linear resampling (interpolate_profile) and the pipeline      *)
(* load_current_profile.                                                   *)
(*                                                                         *)
(* Numbers.  Times are integers counted in ticks (one tick is any fixed    *)
(* fraction of a second), so floor, arange and comparisons are exact.      *)
(* A parsed cell is a float record [k, v]: k = "fin" with integer value v, *)
(* k = "nan", or k = "inf" with sign v.  Interpolated currents are exact   *)
(* rationals <<num, den>> in lowest terms with den > 0.                    *)
(***************************************************************************)
EXTENDS Integers, Sequences, FiniteSets, TLC

VARIABLES file, dt, t_end, profile, time_grid, pc, result

vars == <<file, dt, t_end, profile, time_grid, pc, result>>

(***************************************************************************)
(* Bounds of the explored inputs.                                          *)
(***************************************************************************)
MaxRows == 3          \* lines after the header line of a CSV file
MaxDt == 4            \* largest step size, in ticks
MaxTEnd == 8          \* largest explicit end time, in ticks
MaxSamples == 4       \* samples of a profile handed to interpolate_profile
MaxTime == 2          \* profile times are 0, 2, .., 2 * MaxTime ticks
MaxGrid == 3          \* points of a free-form target grid
MaxRangeSamples == 2  \* samples of a profile resampled on a free-form grid

(***************************************************************************)
(* Generic helpers.                                                        *)
(***************************************************************************)
Range(s) == {s[i] : i \in DOMAIN s}

SeqsUpTo(S, n) == UNION {[1..m -> S] : m \in 0..n}

Last(s) == s[Len(s)]

Abs(n) == IF n < 0 THEN -n ELSE n

RECURSIVE GCD(_, _)
GCD(a, b) == IF b = 0 THEN a ELSE GCD(b, a % b)

\* The rational n / d (d # 0) in lowest terms with a positive denominator.
Rat(n, d) ==
    LET g == GCD(Abs(n), Abs(d))
        s == IF d < 0 THEN -1 ELSE 1
    IN  <<(s * n) \div g, (s * d) \div g>>

(***************************************************************************)
(* Floats as produced by Python's float() on a CSV cell.                   *)
(***************************************************************************)
Fin(n) == [k |-> "fin", v |-> n]
NaN == [k |-> "nan", v |-> 0]
Inf(sign) == [k |-> "inf", v |-> sign]

isfinite(x) == x.k = "fin"

\* The value a missing cell has in a DictReader row (restval).
None == "<None>"

\* The decimal literals that occur in the explored files, with their values.
DecimalValue ==
    [s \in {"-1", "0", "1", "2", "3", "5", "10"} |->
        CASE s = "-1" -> -1
          [] s = "0" -> 0
          [] s = "1" -> 1
          [] s = "2" -> 2
          [] s = "3" -> 3
          [] s = "5" -> 5
          [] s = "10" -> 10]

\* float(value): [ok |-> TRUE, f |-> the float], or ok = FALSE when float()
\* raises TypeError (value is None) or ValueError (not a number literal).
\* "nan", "inf" and "-inf" are number literals for float().
PyFloat(value) ==
    IF value \in DOMAIN DecimalValue THEN [ok |-> TRUE, f |-> Fin(DecimalValue[value])]
    ELSE IF value = "nan" THEN [ok |-> TRUE, f |-> NaN]
    ELSE IF value = "inf" THEN [ok |-> TRUE, f |-> Inf(1)]
    ELSE IF value = "-inf" THEN [ok |-> TRUE, f |-> Inf(-1)]
    ELSE [ok |-> FALSE, f |-> NaN]

(***************************************************************************)
(* Results of a call: a returned value or the raised error.                *)
(*   MissingFile        FileNotFoundError                                  *)
(*   SchemaError        "CSV file has no header row" / "CSV missing ..."   *)
(*   ParseError         "Row r: field is not numeric"                      *)
(*   EmptyDataset       "CSV contains no data rows"                        *)
(*   NonFiniteValue     "CSV contains non-finite numeric values"           *)
(*   NonMonotonicTime   "t_s must be monotonically non-decreasing"         *)
(*   InvalidParameter   "dt must be positive" / "t_end must be positive"   *)
(*   EmptyGrid          "time_grid must not be empty"                      *)
(*   RangeErrorBefore   "time_grid starts before profile t_s range"        *)
(*   RangeErrorAfter    "time_grid ends after profile t_s range"           *)
(***************************************************************************)
NoValue == <<>>

Ok(v) == [status |-> "ok", value |-> v, row |-> 0, field |-> "", missing |-> {}]

Raise(kind) == [status |-> kind, value |-> NoValue, row |-> 0, field |-> "", missing |-> {}]

RaiseParse(row_index, field_name) ==
    [status |-> "ParseError", value |-> NoValue, row |-> row_index,
     field |-> field_name, missing |-> {}]

RaiseSchema(missing_cols) ==
    [status |-> "SchemaError", value |-> NoValue, row |-> 0, field |-> "",
     missing |-> missing_cols]

(***************************************************************************)
(* csv.DictReader.                                                         *)
(***************************************************************************)
\* reader.fieldnames is the first line of the file (None for an empty file).
HasHeader(f) == Len(f.lines) > 0

fieldnames(f) == Head(f.lines)

\* One row as a dict: dict(zip(fieldnames, line)), a later duplicate column
\* name overwriting an earlier one, cells past the end of the line being None.
DictRow(names, line) ==
    [name \in Range(names) |->
        LET i == CHOOSE i \in DOMAIN names :
                    /\ names[i] = name
                    /\ \A j \in DOMAIN names : names[j] = name => j <= i
        IN  IF i <= Len(line) THEN line[i] ELSE None]

\* Iterating the reader: lines after the header, blank lines skipped.
IsDataLine(line) == line # <<>>

DataRows(f) ==
    LET names == fieldnames(f)
        kept == SelectSeq(Tail(f.lines), IsDataLine)
    IN  [i \in DOMAIN kept |-> DictRow(names, kept[i])]

(***************************************************************************)
(* _parse_float and load_profile_csv.                                      *)
(***************************************************************************)
\* The row number taken to count the first data row as row 1.
_parse_float_data_row(value, field_name, row_index) ==
    LET r == PyFloat(value)
    IN  IF r.ok THEN Ok(r.f) ELSE RaiseParse(row_index - 1, field_name)

_parse_float(value, field_name, row_index) ==
    LET r == PyFloat(value)
    IN  IF r.ok THEN Ok(r.f) ELSE RaiseParse(row_index, field_name)

RECURSIVE ParseRowsPrepend(_, _, _, _)
RECURSIVE ParseRows(_, _, _, _)

\* The loop taken to insert each parsed row at the front of the lists.
ParseRowsPrepend(rows, n, times, currents) ==
    IF n > Len(rows) THEN Ok([times_s |-> times, currents_a |-> currents])
    ELSE LET t_value == PyFloat(rows[n]["t_s"])
             i_value == PyFloat(rows[n]["I_A"])
         IN  IF ~t_value.ok THEN RaiseParse(n + 1, "t_s")
             ELSE IF ~i_value.ok THEN RaiseParse(n + 1, "I_A")
             ELSE ParseRowsPrepend(rows, n + 1, <<t_value.f>> \o times,
                                   <<i_value.f>> \o currents)

\* The loop over enumerate(reader, start=2); rows[n] has row_index n + 1.
ParseRows(rows, n, times, currents) ==
    IF n > Len(rows) THEN Ok([times_s |-> times, currents_a |-> currents])
    ELSE LET t_value == _parse_float(rows[n]["t_s"], "t_s", n + 1)
             i_value == _parse_float(rows[n]["I_A"], "I_A", n + 1)
         IN  IF t_value.status # "ok" THEN t_value
             ELSE IF i_value.status # "ok" THEN i_value
             ELSE ParseRows(rows, n + 1, Append(times, t_value.value),
                            Append(currents, i_value.value))

\* The monotonicity test taken to reject equal consecutive times too.
AnyNonPositiveDiff(times) ==
    \E i \in 1..(Len(times) - 1) : times[i + 1].v - times[i].v <= 0

\* np.any(np.diff(times_arr) < 0), on finite times.
AnyNegativeDiff(times) ==
    \E i \in 1..(Len(times) - 1) : times[i + 1].v - times[i].v < 0

AnyNonFinite(arr) == \E i \in DOMAIN arr : ~isfinite(arr[i])

CheckProfile(times, currents) ==
    IF Len(times) = 0 THEN Raise("EmptyDataset")
    ELSE IF AnyNonFinite(times) \/ AnyNonFinite(currents) THEN Raise("NonFiniteValue")
    ELSE IF AnyNegativeDiff(times) THEN Raise("NonMonotonicTime")
    ELSE Ok([times_s |-> times, currents_a |-> currents])

load_profile_csv(f) ==
    IF ~f.exists THEN Raise("MissingFile")
    ELSE IF ~HasHeader(f) THEN RaiseSchema({})
    ELSE LET missing == {"t_s", "I_A"} \ Range(fieldnames(f))
         IN  IF missing # {} THEN RaiseSchema(missing)
             ELSE LET parsed == ParseRows(DataRows(f), 1, <<>>, <<>>)
                  IN  IF parsed.status # "ok" THEN parsed
                      ELSE CheckProfile(parsed.value.times_s, parsed.value.currents_a)

(***************************************************************************)
(* build_time_grid.                                                        *)
(***************************************************************************)
\* Ceiling of a / b for b > 0.
CeilDiv(a, b) == -((-a) \div b)

\* arange taken to include the stop value.
arangeInclusive(start, stop, step) ==
    LET len == IF stop >= start THEN (stop - start) \div step + 1 ELSE 0
    IN  [i \in 1..len |-> start + (i - 1) * step]

\* np.arange(start, stop, step) for step > 0: ceil((stop - start) / step)
\* points start, start + step, ..; the stop value itself is excluded.
arange(start, stop, step) ==
    LET len == IF stop > start THEN CeilDiv(stop - start, step) ELSE 0
    IN  [i \in 1..len |-> start + (i - 1) * step]

\* build_time_grid with the number of steps rounded up instead of down.
build_time_grid_ceil(step, end) ==
    IF step <= 0 THEN Raise("InvalidParameter")
    ELSE IF end <= 0 THEN Raise("InvalidParameter")
    ELSE LET steps == CeilDiv(end, step)
         IN  Ok(arange(0, steps * step + step, step))

\* build_time_grid without the check of t_end.
build_time_grid_no_end_check(step, end) ==
    IF step <= 0 THEN Raise("InvalidParameter")
    ELSE LET steps == end \div step
         IN  Ok([i \in 1..(IF steps >= 0 THEN steps + 1 ELSE 0) |-> (i - 1) * step])

build_time_grid(step, end) ==
    IF step <= 0 THEN Raise("InvalidParameter")
    ELSE IF end <= 0 THEN Raise("InvalidParameter")
    ELSE LET steps == end \div step
         IN  Ok(arange(0, steps * step + step, step))

(***************************************************************************)
(* interpolate_profile.                                                    *)
(***************************************************************************)
\* The search taken to stop at the first sample whose time equals x.
SearchIndexFirst(x, xp) ==
    IF x > xp[Len(xp)].v THEN Len(xp) + 1
    ELSE IF x < xp[1].v THEN 0
    ELSE IF \E i \in DOMAIN xp : xp[i].v = x
         THEN CHOOSE j \in DOMAIN xp :
                /\ xp[j].v = x
                /\ \A i \in DOMAIN xp : xp[i].v = x => j <= i
         ELSE CHOOSE j \in DOMAIN xp :
                /\ xp[j].v <= x
                /\ \A i \in DOMAIN xp : xp[i].v <= x => i <= j

\* The index np.interp searches for: 0 when x is left of xp, Len(xp) + 1
\* when x is right of xp, else the last j with xp[j] <= x (indices from 1).
SearchIndex(x, xp) ==
    IF x > xp[Len(xp)].v THEN Len(xp) + 1
    ELSE IF x < xp[1].v THEN 0
    ELSE CHOOSE j \in DOMAIN xp :
            /\ xp[j].v <= x
            /\ \A i \in DOMAIN xp : xp[i].v <= x => i <= j

\* np.interp at one point, left and right defaulting to fp[0] and fp[-1].
InterpAt(x, xp, fp) ==
    LET j == SearchIndex(x, xp)
    IN  IF j = 0 THEN Rat(fp[1].v, 1)
        ELSE IF j = Len(xp) + 1 THEN Rat(fp[Len(fp)].v, 1)
        ELSE IF j = Len(xp) THEN Rat(fp[j].v, 1)
        ELSE IF xp[j].v = x THEN Rat(fp[j].v, 1)
        ELSE Rat((fp[j + 1].v - fp[j].v) * (x - xp[j].v)
                    + fp[j].v * (xp[j + 1].v - xp[j].v),
                 xp[j + 1].v - xp[j].v)

interp(x, xp, fp) == [i \in DOMAIN x |-> InterpAt(x[i], xp, fp)]

\* The range checks taken to be strict at both ends.
interpolate_profile_strict(p, grid) ==
    IF Len(grid) = 0 THEN Raise("EmptyGrid")
    ELSE IF grid[1] <= p.times_s[1].v THEN Raise("RangeErrorBefore")
    ELSE IF Last(grid) >= Last(p.times_s).v THEN Raise("RangeErrorAfter")
    ELSE Ok(interp(grid, p.times_s, p.currents_a))

interpolate_profile(p, grid) ==
    IF Len(grid) = 0 THEN Raise("EmptyGrid")
    ELSE IF grid[1] < p.times_s[1].v THEN Raise("RangeErrorBefore")
    ELSE IF Last(grid) > Last(p.times_s).v THEN Raise("RangeErrorAfter")
    ELSE Ok(interp(grid, p.times_s, p.currents_a))

(***************************************************************************)
(* load_current_profile: parse, end time from the profile, grid, resample. *)
(***************************************************************************)
load_current_profile(f, step) ==
    LET loaded == load_profile_csv(f)
    IN  IF loaded.status # "ok" THEN loaded
        ELSE LET end == Last(loaded.value.times_s).v
                 grid == build_time_grid(step, end)
             IN  IF grid.status # "ok" THEN grid
                 ELSE interpolate_profile(loaded.value, grid.value)

(***************************************************************************)
(* Explored inputs.                                                        *)
(***************************************************************************)
NoFile == [exists |-> FALSE, lines |-> <<>>]
NoProfile == [times_s |-> <<>>, currents_a |-> <<>>]

\* Header lines: the two required columns in either order, with an extra
\* column, with a required column absent, and a blank first line.
ValidHeaders == {<<"t_s", "I_A">>, <<"I_A", "t_s">>, <<"t_s", "I_A", "note">>}
BadHeaders == {<<"t_s", "note">>, <<"I_A">>, <<>>}

FirstCells == {"0", "1", "2", "nan", "abc"}
SecondCells == {"5", "inf", ""}

\* Lines after the header: blank, one cell short, two cells, one cell extra.
CsvLines ==
    {<<>>, <<"1">>, <<"0", "5", "x">>}
        \cup {<<a, b>> : a \in FirstCells, b \in SecondCells}

CsvFilesUpTo(n) ==
    {NoFile, [exists |-> TRUE, lines |-> <<>>]}
        \cup {[exists |-> TRUE, lines |-> <<h>> \o body] :
                h \in ValidHeaders, body \in SeqsUpTo(CsvLines, n)}
        \cup {[exists |-> TRUE, lines |-> <<h>> \o body] :
                h \in BadHeaders, body \in SeqsUpTo(CsvLines, 1)}

\* Files of the pipeline: numeric cells only, times from -1 to 3 ticks.
LoadLines == {<<a, b>> : a \in {"-1", "0", "1", "2", "3"}, b \in {"5", "10"}}

LoadFilesUpTo(n) ==
    {[exists |-> TRUE, lines |-> <<<<"t_s", "I_A">>>> \o body] :
        body \in SeqsUpTo(LoadLines, n)}

Floats(s) == [i \in DOMAIN s |-> Fin(s[i])]

IsNonDecreasing(s) == \A i \in 1..(Len(s) - 1) : s[i] <= s[i + 1]

\* Valid profiles: non-empty, finite, times non-decreasing.
ProfilesUpTo(n) ==
    {[times_s |-> Floats(ts), currents_a |-> Floats(cs)] :
        <<ts, cs>> \in
            {pair \in UNION {[1..m -> {2 * k : k \in 0..MaxTime}]
                                \X [1..m -> {0, 5, 10}] : m \in 1..n} :
                IsNonDecreasing(pair[1])}}

GridPoints == -1..(2 * MaxTime + 1)

TimesOf(p) == [i \in DOMAIN p.times_s |-> p.times_s[i].v]

(***************************************************************************)
(* State machines: one call per behaviour, pc "call" before and "done"     *)
(* after it; result holds what the call returned or raised.                *)
(***************************************************************************)
Idle ==
    /\ pc = "call"
    /\ result = Raise("none")

\* load_profile_csv(path)
InitCsv ==
    /\ file \in CsvFilesUpTo(MaxRows)
    /\ dt = 0 /\ t_end = 0 /\ profile = NoProfile /\ time_grid = <<>>
    /\ Idle

LoadProfileCsv ==
    /\ pc = "call"
    /\ result' = load_profile_csv(file)
    /\ pc' = "done"
    /\ UNCHANGED <<file, dt, t_end, profile, time_grid>>

NextCsv == LoadProfileCsv

SpecCsv == InitCsv /\ [][NextCsv]_vars

\* build_time_grid(dt, t_end)
InitGrid ==
    /\ dt \in -1..MaxDt
    /\ t_end \in -1..MaxTEnd
    /\ file = NoFile /\ profile = NoProfile /\ time_grid = <<>>
    /\ Idle

BuildTimeGrid ==
    /\ pc = "call"
    /\ result' = build_time_grid(dt, t_end)
    /\ pc' = "done"
    /\ UNCHANGED <<file, dt, t_end, profile, time_grid>>

NextGrid == BuildTimeGrid

SpecGrid == InitGrid /\ [][NextGrid]_vars

\* interpolate_profile(profile, time_grid)
InterpolateProfile ==
    /\ pc = "call"
    /\ result' = interpolate_profile(profile, time_grid)
    /\ pc' = "done"
    /\ UNCHANGED <<file, dt, t_end, profile, time_grid>>

NextInterp == InterpolateProfile

\* grids of at most one point, and the profile's own time sequence
InitInterp ==
    /\ profile \in ProfilesUpTo(MaxSamples)
    /\ time_grid \in SeqsUpTo(GridPoints, 1) \cup {TimesOf(profile)}
    /\ file = NoFile /\ dt = 0 /\ t_end = 0
    /\ Idle

SpecInterp == InitInterp /\ [][NextInterp]_vars

\* free-form grids, points in any order
InitRange ==
    /\ profile \in ProfilesUpTo(MaxRangeSamples)
    /\ time_grid \in SeqsUpTo(GridPoints, MaxGrid)
    /\ file = NoFile /\ dt = 0 /\ t_end = 0
    /\ Idle

SpecRange == InitRange /\ [][NextInterp]_vars

\* load_current_profile(path, dt)
InitLoad ==
    /\ file \in LoadFilesUpTo(MaxRows)
    /\ dt \in 0..MaxDt
    /\ t_end = 0 /\ profile = NoProfile /\ time_grid = <<>>
    /\ Idle

\* profile, t_end and time_grid are the locals of the call, as far as it got.
LoadCurrentProfile ==
    /\ pc = "call"
    /\ LET loaded == load_profile_csv(file)
           end == Last(loaded.value.times_s).v
           grid == build_time_grid(dt, end)
       IN  /\ profile' = IF loaded.status = "ok" THEN loaded.value ELSE profile
           /\ t_end' = IF loaded.status = "ok" THEN end ELSE t_end
           /\ time_grid' = IF loaded.status = "ok" /\ grid.status = "ok"
                           THEN grid.value ELSE time_grid
    /\ result' = load_current_profile(file, dt)
    /\ pc' = "done"
    /\ UNCHANGED <<file, dt>>

NextLoad == LoadCurrentProfile

SpecLoad == InitLoad /\ [][NextLoad]_vars

(***************************************************************************)
(* Properties of build_time_grid (SpecGrid).                               *)
(***************************************************************************)
GridCallDone == pc = "done" /\ dt > 0 /\ t_end > 0

\* C3: for dt > 0 and t_end > 0 the grid starts at exactly 0, ends at a
\* point >= t_end, and consecutive points differ by exactly dt.
C3_GridCoversEnd ==
    GridCallDone =>
        /\ result.status = "ok"
        /\ Len(result.value) >= 1
        /\ result.value[1] = 0
        /\ Last(result.value) >= t_end
        /\ \A i \in 1..(Len(result.value) - 1) :
                result.value[i + 1] - result.value[i] = dt

FirstTime == profile.times_s[1].v
LastTime == Last(profile.times_s).v

LoadCallDone == pc = "done" /\ dt > 0 /\ profile # NoProfile

InterpCallDone == pc = "done" /\ Len(time_grid) > 0

\* The samples of the profile whose time is t.
SamplesAt(t) == {j \in DOMAIN profile.times_s : profile.times_s[j].v = t}

FirstSampleAt(t) == CHOOSE j \in SamplesAt(t) : \A m \in SamplesAt(t) : j <= m
LastSampleAt(t) == CHOOSE j \in SamplesAt(t) : \A m \in SamplesAt(t) : m <= j

\* A time that two or more samples share (a step discontinuity).
IsStepTime(t) == Cardinality(SamplesAt(t)) >= 2

\* The profile (0,0), (1,5), (1,10), (2,0), one second being two ticks.
StepExample ==
    [times_s |-> Floats(<<0, 2, 2, 4>>), currents_a |-> Floats(<<0, 5, 10, 0>>)]

\* C2 as stated: a grid point equal to a duplicated time gets the current
\* of the first sample with that time.
C2_FirstOccurrenceAtStep ==
    InterpCallDone /\ result.status = "ok" =>
        \A i \in DOMAIN time_grid :
            IsStepTime(time_grid[i]) =>
                result.value[i] = <<profile.currents_a[FirstSampleAt(time_grid[i])].v, 1>>

\* C2 amended: a grid point equal to a duplicated time gets the current of
\* the last sample with that time, however many samples share it; in the
\* example, t = 1 gives 10 and t = 0.5 gives 2.5.
C2_LastOccurrenceAtStep ==
    InterpCallDone /\ result.status = "ok" =>
        /\ \A i \in DOMAIN time_grid :
            IsStepTime(time_grid[i]) =>
                result.value[i] = <<profile.currents_a[LastSampleAt(time_grid[i])].v, 1>>
        /\ (profile = StepExample /\ time_grid = <<2>>) => result.value = << <<10, 1>> >>
        /\ (profile = StepExample /\ time_grid = <<1>>) => result.value = << <<5, 2>> >>

C2_Witness ==
    /\ InterpCallDone
    /\ profile = StepExample
    /\ time_grid = <<2>>
    /\ result.status = "ok"
    /\ result.value = << <<10, 1>> >>

\* Three samples sharing one time, with three different currents.
C2_WitnessTriple ==
    /\ InterpCallDone
    /\ Cardinality(SamplesAt(time_grid[1])) = 3
    /\ Cardinality({profile.currents_a[j].v : j \in SamplesAt(time_grid[1])}) = 3
    /\ result.status = "ok"

OwnTimesCallDone == pc = "done" /\ time_grid = TimesOf(profile)

\* C6 as stated: resampling a profile at its own time sequence returns its
\* own current sequence, position by position, duplicates included.
C6_RoundTripExact ==
    OwnTimesCallDone =>
        /\ result.status = "ok"
        /\ result.value = [i \in DOMAIN profile.currents_a |-> <<profile.currents_a[i].v, 1>>]

\* C6 amended: resampling a profile at its own time sequence returns, at
\* each position, the current of the last sample that has that position's
\* time; for strictly increasing times that is the profile's own current
\* sequence.
C6_RoundTripLastOfEqualTimes ==
    OwnTimesCallDone =>
        /\ result.status = "ok"
        /\ Len(result.value) = Len(profile.currents_a)
        /\ \A i \in DOMAIN profile.times_s :
            result.value[i] =
                <<profile.currents_a[LastSampleAt(profile.times_s[i].v)].v, 1>>
        /\ (\A i \in DOMAIN profile.times_s : ~IsStepTime(profile.times_s[i].v)) =>
            result.value = [i \in DOMAIN profile.currents_a |-> <<profile.currents_a[i].v, 1>>]

C6_Witness ==
    /\ OwnTimesCallDone
    /\ profile = StepExample
    /\ result.status = "ok"
    /\ result.value = << <<0, 1>>, <<10, 1>>, <<10, 1>>, <<0, 1>> >>

\* C5: if any point of a non-empty grid, in whatever position, lies outside
\* [first time, last time], the call fails with a range error and returns
\* no values.
C5_AnyPointOutsideFails ==
    (InterpCallDone /\ \E i \in DOMAIN time_grid :
                            \/ time_grid[i] < profile.times_s[1].v
                            \/ time_grid[i] > Last(profile.times_s).v) =>
        /\ result.status \in {"RangeErrorBefore", "RangeErrorAfter"}
        /\ result.value = NoValue

(***************************************************************************)
(* Properties of load_profile_csv (SpecCsv).                               *)
(***************************************************************************)
CsvCallDone == pc = "done"

\* The file exists and its first line names both required columns.
HeaderOk ==
    /\ file.exists
    /\ Len(file.lines) > 0
    /\ {"t_s", "I_A"} \subseteq Range(file.lines[1])

\* The data rows of the file, in file order: the non-blank lines after the
\* header line.
NonBlank(line) == Len(line) > 0
RawRows == SelectSeq(Tail(file.lines), NonBlank)

\* The text of column `name` in data row k (None when the row is too short).
ColumnOf(name) == CHOOSE i \in DOMAIN file.lines[1] : file.lines[1][i] = name
CellAt(k, name) ==
    IF ColumnOf(name) <= Len(RawRows[k]) THEN RawRows[k][ColumnOf(name)] ELSE None

IsDecimal(cell) == cell \in DOMAIN DecimalValue
IsNumberText(cell) == IsDecimal(cell) \/ cell \in {"nan", "inf", "-inf"}

ParserErrorKinds ==
    {"MissingFile", "SchemaError", "ParseError", "EmptyDataset", "NonFiniteValue",
     "NonMonotonicTime"}

IsValidProfile(p) ==
    /\ Len(p.times_s) >= 1
    /\ Len(p.times_s) = Len(p.currents_a)
    /\ \A i \in DOMAIN p.times_s : p.times_s[i].k = "fin" /\ p.currents_a[i].k = "fin"
    /\ \A i \in 1..(Len(p.times_s) - 1) : p.times_s[i].v <= p.times_s[i + 1].v

\* C7: the call either raises one of the parser's errors and returns no
\* profile, or returns a valid profile (non-empty, equal lengths, finite,
\* times non-decreasing); a file of decimal cells whose times never decrease
\* (equal consecutive times included) is accepted, and a file with a
\* decreasing pair of consecutive times is rejected.
C7_AllOrNothing ==
    CsvCallDone =>
        /\ \/ result.status \in ParserErrorKinds /\ result.value = NoValue
           \/ result.status = "ok" /\ IsValidProfile(result.value)
        /\ ( /\ HeaderOk
             /\ Len(RawRows) >= 1
             /\ \A k \in DOMAIN RawRows :
                    IsDecimal(CellAt(k, "t_s")) /\ IsDecimal(CellAt(k, "I_A"))
             /\ \A k \in 1..(Len(RawRows) - 1) :
                    DecimalValue[CellAt(k, "t_s")] <= DecimalValue[CellAt(k + 1, "t_s")] )
            => result.status = "ok"
        /\ ( /\ HeaderOk
             /\ \E k \in 1..(Len(RawRows) - 1) :
                    /\ IsDecimal(CellAt(k, "t_s")) /\ IsDecimal(CellAt(k + 1, "t_s"))
                    /\ DecimalValue[CellAt(k + 1, "t_s")] < DecimalValue[CellAt(k, "t_s")] )
            => result.status # "ok"

\* a returned profile with a step: times 1, 1, 2
C7_Witness ==
    /\ CsvCallDone
    /\ result.status = "ok"
    /\ Len(result.value.times_s) = 3
    /\ result.value.times_s[1] = Fin(1)
    /\ result.value.times_s[2] = Fin(1)
    /\ result.value.times_s[3] = Fin(2)

\* C8: a returned profile has one sample per data row, in row order, the
\* k-th sample being the t_s and I_A cells of the k-th data row, whatever
\* the order of the columns and whatever other columns there are.
C8_RowOrderPreserved ==
    (CsvCallDone /\ result.status = "ok") =>
        /\ HeaderOk
        /\ Len(result.value.times_s) = Len(RawRows)
        /\ Len(result.value.currents_a) = Len(RawRows)
        /\ \A k \in DOMAIN RawRows :
            /\ IsDecimal(CellAt(k, "t_s")) /\ IsDecimal(CellAt(k, "I_A"))
            /\ result.value.times_s[k] = Fin(DecimalValue[CellAt(k, "t_s")])
            /\ result.value.currents_a[k] = Fin(DecimalValue[CellAt(k, "I_A")])

\* an extra column, a row with an extra cell, a blank line between two rows
C8_Witness ==
    /\ CsvCallDone
    /\ result.status = "ok"
    /\ file.lines = << <<"t_s", "I_A", "note">>, <<"0", "5", "x">>, <<>>, <<"1", "5">> >>
    /\ result.value.times_s = <<Fin(0), Fin(1)>>
    /\ result.value.currents_a = <<Fin(5), Fin(5)>>

\* The first data row with a t_s or I_A cell that is not the text of a number.
HasBadCell(k) == ~IsNumberText(CellAt(k, "t_s")) \/ ~IsNumberText(CellAt(k, "I_A"))
FirstBadRow == CHOOSE k \in DOMAIN RawRows :
                    HasBadCell(k) /\ \A m \in DOMAIN RawRows : HasBadCell(m) => k <= m

\* C9: with a valid header, a cell of t_s or I_A that is not a number makes
\* the call raise ParseError naming the first such cell in file order (t_s
\* before I_A within a row): the k-th data row is reported as row k + 1;
\* non-finite values or decreasing times elsewhere do not change that.
C9_FirstBadCellReported ==
    (CsvCallDone /\ HeaderOk /\ \E k \in DOMAIN RawRows : HasBadCell(k)) =>
        /\ result.status = "ParseError"
        /\ result.row = FirstBadRow + 1
        /\ result.field = IF ~IsNumberText(CellAt(FirstBadRow, "t_s")) THEN "t_s" ELSE "I_A"

\* nan in the first data row, the bad I_A cell in the second, a bad t_s
\* cell in the third
C9_Witness ==
    /\ CsvCallDone
    /\ file.lines = << <<"t_s", "I_A">>, <<"nan", "5">>, <<"0", "">>, <<"abc", "5">> >>
    /\ result.status = "ParseError"
    /\ result.row = 3
    /\ result.field = "I_A"

====
